---- MODULE Spec2Model ----
(***************************************************************************)
(* nh3: Python bindings to the ammonia HTML sanitizer (src/src/lib.rs).    *)
(*                                                                         *)
(* The model covers the Python-visible API (Cleaner(...), Cleaner.clean,   *)
(* the module-level clean, the exposed ALLOWED_* objects), the             *)
(* configuration the binding stores, the ammonia::Builder it derives from  *)
(* that configuration, the attribute_filter closure that calls back into   *)
(* Python, and the part of ammonia's Builder::clean that the binding       *)
(* drives through that builder (attribute allowlist, forced attributes,    *)
(* attribute filter, rel assertions).                                      *)
(*                                                                         *)
(* An Option<T> is modelled as a set with at most one element:             *)
(* None = {}, Some(x) = {x}.  A HashMap is a function on its key set.      *)
(* An HTML fragment is modelled after parsing: a sequence of elements,     *)
(* each a tag name and an ordered attribute list.  The options the model   *)
(* keeps at their defaults (clean_content_tags, strip_comments,            *)
(* tag_attribute_values, url_schemes, allowed_classes,                     *)
(* filter_style_properties) are left out of Config.                        *)
(***************************************************************************)
EXTENDS Integers, Sequences, FiniteSets, TLC

\* Largest number of attributes on an input element.
MaxAttrs == 2

\* The most clean calls one thread makes on the shared Cleaner.
MaxCalls == 2

None == {}
Some(x) == {x}
Unwrap(o) == CHOOSE x \in o : TRUE

EmptyMap == [k \in {} |-> {}]

(***************************************************************************)
(* State                                                                   *)
(***************************************************************************)
VARIABLES
    config,       \* the options the caller passes (fixed for a run)
    cleaner,      \* the Cleaner object the caller holds: None or Some(Cleaner)
    op,           \* the last API call made
    html,         \* the html argument of the last clean call, if any
    result,       \* what the last call returned or raised
    sanitized,    \* the html the last call handed to builder.clean, if any
    hookCalls,    \* argument tuples of the hook invocations of the last call
    unraisable,   \* reports written to sys.unraisablehook by the last call
    previous,     \* output of the call before, when the caller fed it back
    moduleAttrs,  \* the objects the module exposes as ALLOWED_TAGS, ...
    gil,          \* the thread that holds the interpreter lock, or NoThread;
                  \* GilDisabled on a free-threaded interpreter
    threads       \* per thread: where it is in Cleaner.clean, and its locals

vars == <<config, cleaner, op, html, result, sanitized, hookCalls,
          unraisable, previous, moduleAttrs, gil, threads>>

\* The variables of the one-caller view of the API.
callVars == <<op, html, result, sanitized, hookCalls, unraisable, previous>>

(***************************************************************************)
(* Strings                                                                 *)
(***************************************************************************)
StartsWith(s, p) == Len(s) >= Len(p) /\ SubSeq(s, 1, Len(p)) = p

(***************************************************************************)
(* The inputs the model draws from                                         *)
(***************************************************************************)
TagNames == {"a", "b"}
AttrNames == {"href", "rel", "title", "data-x"}
AttrValues == {"x", "y"}

Attribute == [name : AttrNames, value : AttrValues]

DistinctNames(as) == \A i, j \in 1..Len(as) : i # j => as[i].name # as[j].name

\* Attribute lists as the HTML parser hands them over: no name occurs twice.
\* At most one attribute of an element carries the second value.
AttrLists ==
    {as \in UNION {[1..n -> Attribute] : n \in 0..MaxAttrs} :
        /\ DistinctNames(as)
        /\ \A i, j \in 1..Len(as) : (as[i].value = "y" /\ as[j].value = "y") => i = j}

Elements == [tag : TagNames, attrs : AttrLists]

\* Parsed fragments: empty, or one element.
Fragments == {<<>>} \cup {<<e>> : e \in Elements}

(***************************************************************************)
(* Python callables handed in as attribute_filter                          *)
(***************************************************************************)
HookBehaviours == {"keep", "none", "raise", "nonstr", "surrogate", "rot", "const"}
HookTargets == {"*", "href"}

\* A callable that behaves as `beh` on the attributes named `on` ("*": all
\* of them) and returns the value unchanged on the others.
Callables == {[callable |-> TRUE, on |-> "*", beh |-> "keep"]}
             \cup [callable : {TRUE}, on : HookTargets, beh : HookBehaviours \ {"keep"}]

\* An object that is not callable (e.g. the string "not a callable").
NotCallable == [callable |-> FALSE, on |-> "*", beh |-> "keep"]

PyObjects == Callables \cup {NotCallable}

Rot(v) == IF v = "x" THEN "y" ELSE "x"

\* callback.call(py, (element, attribute, value), None): what the Python
\* callable does with its three str arguments.  The result is a PyResult:
\* "raise" is Err(err), the other kinds are Ok(val) for val None, a str, a str
\* holding a lone surrogate (no UTF-8 form), or an object that is no str.
Call(callback, args) ==
    LET beh == IF callback.on \in {"*", args[2]} THEN callback.beh ELSE "keep"
    IN  CASE beh = "keep"      -> [kind |-> "str", s |-> args[3]]
          [] beh = "none"      -> [kind |-> "none", s |-> ""]
          [] beh = "raise"     -> [kind |-> "raise", s |-> "ValueError"]
          [] beh = "nonstr"    -> [kind |-> "nonstr", s |-> ""]
          [] beh = "surrogate" -> [kind |-> "surrogate", s |-> "<lone surrogate>"]
          [] beh = "rot"       -> [kind |-> "str", s |-> Rot(args[3])]
          [] beh = "const"     -> [kind |-> "str", s |-> "z"]

(***************************************************************************)
(* Config and the options a caller can pass                                *)
(***************************************************************************)
LINK_REL_DEFAULT == "noopener noreferrer"

TagsOptions == {None, Some({"a"})}

AttributesOptions ==
    { None,
      Some("a" :> {"href"}),
      Some(("a" :> {"href"}) @@ ("*" :> {"data-x"})),
      Some("a" :> {"href", "rel"}),
      Some("*" :> {"rel"}) }

AttributeFilterOptions == {None} \cup {Some(f) : f \in PyObjects}

LinkRelOptions == {None, Some(LINK_REL_DEFAULT)}

PrefixesOptions == {None, Some({"data-"})}

SetTagAttributeValuesOptions == {None, Some("b" :> ("title" :> "set"))}

\* struct Config, as filled in by py_new from the caller's keyword arguments.
Configs ==
    [ tags : TagsOptions,
      attributes : AttributesOptions,
      attribute_filter : AttributeFilterOptions,
      link_rel : LinkRelOptions,
      generic_attribute_prefixes : PrefixesOptions,
      set_tag_attribute_values : SetTagAttributeValuesOptions ]

(***************************************************************************)
(* ammonia::Builder as the binding configures it                           *)
(***************************************************************************)
\* ammonia::Builder::default(), restricted to the names of the model: the
\* default tag set, the per-tag attributes, the generic attributes
\* (lang, title) and link_rel = "noopener noreferrer".
DefaultBuilder ==
    [ tags |-> {"a", "b"},
      tag_attributes |-> ("a" :> {"href"}),
      generic_attributes |-> {"lang", "title"},
      generic_attribute_prefixes |-> None,
      set_tag_attribute_values |-> EmptyMap,
      attribute_filter |-> None,
      link_rel |-> Some(LINK_REL_DEFAULT),
      url_schemes |-> {"http", "https", "mailto"} ]

\* attrs.iter().filter(|(k, _)| k != "*"): the per-tag part of the map.
TagAttributesOf(attrs) == [k \in (DOMAIN attrs) \ {"*"} |-> attrs[k]]

\* config.attributes.and_then(|a| a.get("*")): the generic part, if any.
GenericAttributesOf(attributes) ==
    IF attributes # None /\ "*" \in DOMAIN Unwrap(attributes)
    THEN Some(Unwrap(attributes)["*"])
    ELSE None

\* The setters build_ammonia_from_config applies, in order, to the builder b0.
ConfigureBuilder(b0, cfg) ==
    LET b1 == IF cfg.tags # None
              THEN [b0 EXCEPT !.tags = Unwrap(cfg.tags)]
              ELSE b0
        b2 == IF cfg.attributes # None
              THEN [b1 EXCEPT !.tag_attributes = TagAttributesOf(Unwrap(cfg.attributes))]
              ELSE b1
        b3 == IF cfg.attributes # None /\ GenericAttributesOf(cfg.attributes) # None
              THEN [b2 EXCEPT !.generic_attributes =
                                  Unwrap(GenericAttributesOf(cfg.attributes))]
              ELSE b2
        b4 == IF cfg.generic_attribute_prefixes # None
              THEN [b3 EXCEPT !.generic_attribute_prefixes =
                                  cfg.generic_attribute_prefixes]
              ELSE b3
        b5 == IF cfg.set_tag_attribute_values # None
              THEN [b4 EXCEPT !.set_tag_attribute_values =
                                  Unwrap(cfg.set_tag_attribute_values)]
              ELSE b4
        b6 == IF cfg.attribute_filter # None
              THEN [b5 EXCEPT !.attribute_filter = cfg.attribute_filter]
              ELSE b5
    IN  [b6 EXCEPT !.link_rel = cfg.link_rel]

\* Mutant of BuildAmmoniaFromConfig: builder.tag_attributes(attrs) is never
\* called, so the default per-tag attributes stay in force.
BuildKeepingDefaultTagAttributes(cfg) ==
    [ConfigureBuilder(DefaultBuilder, cfg) EXCEPT
        !.tag_attributes = DefaultBuilder.tag_attributes]

\* Mutant of BuildAmmoniaFromConfig: builder.link_rel(...) is never called,
\* so the default link_rel stays in force.
BuildKeepingDefaultLinkRel(cfg) ==
    [ConfigureBuilder(DefaultBuilder, cfg) EXCEPT !.link_rel = DefaultBuilder.link_rel]

\* Mutant of BuildAmmoniaFromConfig: the defaults are read from the objects
\* the module exposes instead of from a fresh Builder.
BuildFromExposedDefaults(cfg) ==
    ConfigureBuilder([DefaultBuilder EXCEPT
                         !.tags = moduleAttrs.ALLOWED_TAGS,
                         !.tag_attributes = moduleAttrs.ALLOWED_ATTRIBUTES,
                         !.url_schemes = moduleAttrs.ALLOWED_URL_SCHEMES],
                     cfg)

\* build_ammonia_from_config: the setters applied to Builder::default().
BuildAmmoniaFromConfig(cfg) == ConfigureBuilder(DefaultBuilder, cfg)

(***************************************************************************)
(* The attribute_filter closure installed in the builder                   *)
(***************************************************************************)
\* Mutant of ExtractString: a str without a UTF-8 form is converted all the
\* same (a lossy conversion) instead of failing.
ExtractStringLossy(val) ==
    IF val.kind \in {"str", "surrogate"} THEN Some(val.s) ELSE None

\* val.extract::<String>(py): Ok(s) only for a str that has a UTF-8 form.
ExtractString(val) == IF val.kind = "str" THEN Some(val.s) ELSE None

\* Mutant of AttributeFilter: a failed invocation is reported, but the
\* attribute is dropped instead of kept.
AttributeFilterDropsOnError(callback, element, attribute, value) ==
    LET args == <<element, attribute, value>>
        res  == Call(callback, args)
    IN  IF res.kind = "str"
        THEN [ret |-> Some(res.s), call |-> args, unraisable |-> <<>>]
        ELSE [ret |-> None, call |-> args,
              unraisable |-> IF res.kind = "none" THEN <<>>
                             ELSE <<[err |-> IF res.kind = "raise" THEN res.s
                                             ELSE "TypeError",
                                     obj |-> args]>>]

\* Mutant of AttributeFilter: the returned str is handed on in its quoted
\* (Debug) form instead of as it is.
AttributeFilterQuotes(callback, element, attribute, value) ==
    LET args == <<element, attribute, value>>
        res  == Call(callback, args)
    IN  IF res.kind = "none"
        THEN [ret |-> None, call |-> args, unraisable |-> <<>>]
        ELSE IF res.kind = "str"
        THEN [ret |-> Some("'" \o res.s \o "'"), call |-> args, unraisable |-> <<>>]
        ELSE [ret |-> Some(value), call |-> args,
              unraisable |-> <<[err |-> IF res.kind = "raise" THEN res.s ELSE "TypeError",
                                obj |-> args]>>]

\* The closure |element, attribute, value| of build_ammonia_from_config.
\* ret is the Option it hands back to ammonia, call the argument tuple the
\* callable was invoked with, unraisable the reports it wrote with
\* err.write_unraisable (the error and the (element, attribute, value) tuple).
AttributeFilter(callback, element, attribute, value) ==
    LET args == <<element, attribute, value>>
        res  == Call(callback, args)
        report(err) == [err |-> err, obj |-> args]
    IN  IF res.kind = "raise"
        THEN [ret |-> Some(value), call |-> args,
              unraisable |-> <<report(res.s)>>]
        ELSE IF res.kind = "none"
        THEN [ret |-> None, call |-> args, unraisable |-> <<>>]
        ELSE IF ExtractString(res) # None
        THEN [ret |-> ExtractString(res), call |-> args, unraisable |-> <<>>]
        ELSE [ret |-> Some(value), call |-> args,
              unraisable |-> <<report("TypeError")>>]

(***************************************************************************)
(* ammonia's Builder::clean, as far as the builder above drives it         *)
(***************************************************************************)
\* The assertions Builder::clean makes on the builder before it walks the
\* tree: with a link_rel, rel must be neither a generic attribute nor an
\* attribute of <a>.  A failed assertion is a Rust panic.
RelConflict(builder) ==
    /\ builder.link_rel # None
    /\ \/ "rel" \in builder.generic_attributes
       \/ /\ "a" \in DOMAIN builder.tag_attributes
          /\ "rel" \in builder.tag_attributes["a"]

\* The name allowlist applied to every attribute of a kept element.
Whitelisted(builder, tag, name) ==
    \/ name \in builder.generic_attributes
    \/ /\ builder.generic_attribute_prefixes # None
       /\ \E p \in Unwrap(builder.generic_attribute_prefixes) : StartsWith(name, p)
    \/ /\ tag \in DOMAIN builder.tag_attributes
       /\ name \in builder.tag_attributes[tag]

\* attrs.retain(attr_filter): the input attributes that pass the allowlist,
\* in their original order.  (The URL check passes every value of the model:
\* they are relative references.)
RetainAttrs(builder, tag, attrs) ==
    SelectSeq(attrs, LAMBDA at : Whitelisted(builder, tag, at.name))

IndexOfName(attrs, name) ==
    IF \E i \in 1..Len(attrs) : attrs[i].name = name
    THEN CHOOSE i \in 1..Len(attrs) :
            /\ attrs[i].name = name
            /\ \A j \in 1..(i - 1) : attrs[j].name # name
    ELSE 0

\* One forced attribute: overwritten where present, appended where absent.
SetAttr(attrs, name, value) ==
    IF IndexOfName(attrs, name) # 0
    THEN [attrs EXCEPT ![IndexOfName(attrs, name)].value = value]
    ELSE Append(attrs, [name |-> name, value |-> value])

RECURSIVE SetAttrs(_, _, _)
SetAttrs(attrs, set_attrs, names) ==
    IF names = {} THEN attrs
    ELSE LET n == CHOOSE n \in names : TRUE
         IN  SetAttrs(SetAttr(attrs, n, set_attrs[n]), set_attrs, names \ {n})

\* The attributes the policy injects: set_tag_attribute_values for the tag,
\* then rel on <a> when link_rel is set.
ForceAttrs(builder, tag, attrs) ==
    LET set  == IF tag \in DOMAIN builder.set_tag_attribute_values
                THEN SetAttrs(attrs, builder.set_tag_attribute_values[tag],
                              DOMAIN builder.set_tag_attribute_values[tag])
                ELSE attrs
    IN  IF builder.link_rel # None /\ tag = "a"
        THEN Append(set, [name |-> "rel", value |-> Unwrap(builder.link_rel)])
        ELSE set

\* Vec::swap_remove(i): the last element takes the place of the removed one.
SwapRemove(s, i) ==
    IF i = Len(s) THEN SubSeq(s, 1, Len(s) - 1)
    ELSE [j \in 1..(Len(s) - 1) |-> IF j = i THEN s[Len(s)] ELSE s[j]]

RECURSIVE SwapRemoveAll(_, _)
\* for i in drop_attrs.into_iter().rev() { attrs.swap_remove(i) }
SwapRemoveAll(s, drops) ==
    IF drops = <<>> THEN s
    ELSE SwapRemoveAll(SwapRemove(s, drops[Len(drops)]), SubSeq(drops, 1, Len(drops) - 1))

\* What ammonia does with the Option the filter returned for attribute i:
\* None marks it for removal, Some(new) replaces the value.
ApplyFilterResult(acc, i, ret) ==
    IF ret = None
    THEN [acc EXCEPT !.drops = Append(@, i)]
    ELSE [acc EXCEPT !.attrs[i].value = Unwrap(ret)]

RECURSIVE FilterFrom(_, _, _, _)
\* The loop over the element's attributes that calls the attribute filter
\* once per attribute, in order, then removes the marked ones.
FilterFrom(callback, tag, acc, i) ==
    IF i > Len(acc.attrs)
    THEN [acc EXCEPT !.attrs = SwapRemoveAll(acc.attrs, acc.drops)]
    ELSE LET r == AttributeFilter(callback, tag, acc.attrs[i].name, acc.attrs[i].value)
             a == ApplyFilterResult(acc, i, r.ret)
         IN  FilterFrom(callback, tag,
                        [a EXCEPT !.calls = Append(@, r.call),
                                  !.unraisable = @ \o r.unraisable],
                        i + 1)

\* adjust_node_attributes: forced attributes first, then the attribute
\* filter over every attribute the element now has.
AdjustNodeAttributes(builder, tag, attrs, log) ==
    LET acc == [attrs |-> ForceAttrs(builder, tag, attrs), drops |-> <<>>,
                calls |-> log.calls, unraisable |-> log.unraisable]
    IN  IF builder.attribute_filter # None
        THEN FilterFrom(Unwrap(builder.attribute_filter), tag, acc, 1)
        ELSE acc

RECURSIVE CleanNodes(_, _, _, _)
\* The walk over the nodes of the fragment: an element whose tag is not
\* allowed is dropped, a kept one has its attributes filtered and adjusted.
CleanNodes(builder, dom, i, acc) ==
    IF i > Len(dom) THEN acc
    ELSE IF dom[i].tag \notin builder.tags
    THEN CleanNodes(builder, dom, i + 1, acc)
    ELSE LET adj == AdjustNodeAttributes(builder, dom[i].tag,
                                         RetainAttrs(builder, dom[i].tag, dom[i].attrs), acc)
         IN  CleanNodes(builder, dom, i + 1,
                        [dom |-> Append(acc.dom, [tag |-> dom[i].tag, attrs |-> adj.attrs]),
                         calls |-> adj.calls, unraisable |-> adj.unraisable])

\* builder.clean(html): panics on a failed assertion, else returns the
\* cleaned document together with what the attribute filter did on the way.
BuilderClean(builder, h) ==
    IF RelConflict(builder)
    THEN [panic |-> TRUE, dom |-> <<>>, calls |-> <<>>, unraisable |-> <<>>]
    ELSE [panic |-> FALSE] @@
         CleanNodes(builder, h, 1, [dom |-> <<>>, calls |-> <<>>, unraisable |-> <<>>])

(***************************************************************************)
(* The Python-visible API                                                  *)
(***************************************************************************)
\* Cleaner::new: the stored Config and the builder derived from it.
CleanerNew(cfg) == [config |-> cfg, builder |-> BuildAmmoniaFromConfig(cfg)]

\* Mutant of PyNew: the is_callable check is missing.
PyNewUnchecked(cfg) == [err |-> None, ok |-> Some(CleanerNew(cfg))]

\* Cleaner::py_new: a PyResult, Err(TypeError) or Ok(Cleaner).
PyNew(cfg) ==
    IF cfg.attribute_filter # None /\ ~Unwrap(cfg.attribute_filter).callable
    THEN [err |-> Some("TypeError"), ok |-> None]
    ELSE [err |-> None, ok |-> Some(CleanerNew(cfg))]

\* Cleaner::clean: self.inner.with_builder(|builder| builder.clean(html)).
CleanerClean(c, h) == BuilderClean(c.builder, h)

\* What a Python caller gets back from a call that ran builder.clean: the
\* str, or the PanicException a Rust panic is turned into.
Returned(run) ==
    IF run.panic THEN [kind |-> "PanicException", out |-> None]
    ELSE [kind |-> "Ok", out |-> Some(run.dom)]

\* The module-level clean(html, ...): py_new(...)? and then cleaner.clean.
CleanFn(h, cfg) ==
    LET new == PyNew(cfg)
    IN  IF new.err # None
        THEN [result |-> [kind |-> Unwrap(new.err), out |-> None],
              sanitized |-> None, calls |-> <<>>, unraisable |-> <<>>]
        ELSE LET run == CleanerClean(Unwrap(new.ok), h)
             IN  [result |-> Returned(run), sanitized |-> Some(h),
                  calls |-> run.calls, unraisable |-> run.unraisable]

Threads == {"t1", "t2"}
NoThread == "none"

\* #[pymodule(gil_used = false)]: the module declares that it does not need
\* the interpreter lock, so importing it into a free-threaded interpreter
\* leaves the lock disabled there.
GilDisabled == "disabled"

\* A Python thread that has not called clean: it does not hold the lock.
IdleThread ==
    [pc |-> "idle", html |-> None, node |-> 0, i |-> 0, attrs |-> <<>>,
     drops |-> <<>>, dom |-> <<>>, reports |-> <<>>, calls |-> 0,
     builder |-> None, result |-> [kind |-> "none", out |-> None]]

\* The module initialiser: the defaults of a fresh Builder, cloned into
\* Python objects (a set, a dict of sets, a set) and bound to module names.
ModuleInit ==
    [ ALLOWED_TAGS |-> DefaultBuilder.tags,
      ALLOWED_ATTRIBUTES |-> DefaultBuilder.tag_attributes,
      ALLOWED_URL_SCHEMES |-> DefaultBuilder.url_schemes ]

Init ==
    /\ config \in Configs
    /\ cleaner = None
    /\ op = "none"
    /\ html = None
    /\ result = [kind |-> "none", out |-> None]
    /\ sanitized = None
    /\ hookCalls = <<>>
    /\ unraisable = <<>>
    /\ previous = None
    /\ moduleAttrs = ModuleInit
    /\ gil = NoThread
    /\ threads = [t \in Threads |-> IdleThread]

\* c = nh3.Cleaner(**config)
NewCleaner ==
    /\ op = "none"
    /\ LET new == PyNew(config)
       IN  /\ cleaner' = new.ok
           /\ result' = IF new.err # None
                        THEN [kind |-> Unwrap(new.err), out |-> None]
                        ELSE [kind |-> "Cleaner", out |-> None]
    /\ op' = "Cleaner"
    /\ html' = None
    /\ sanitized' = None
    /\ hookCalls' = <<>>
    /\ unraisable' = <<>>
    /\ UNCHANGED <<config, previous, moduleAttrs, gil, threads>>

\* The state after c.clean(h).
CleanerCall(h) ==
    \E run \in {CleanerClean(Unwrap(cleaner), h)} :
        /\ op' = "Cleaner.clean"
        /\ html' = Some(h)
        /\ sanitized' = Some(h)
        /\ result' = Returned(run)
        /\ hookCalls' = run.calls
        /\ unraisable' = run.unraisable
        /\ UNCHANGED <<config, cleaner, moduleAttrs, gil, threads>>

\* out = c.clean(h)
PyClean ==
    /\ cleaner # None
    /\ op = "Cleaner"
    /\ \E h \in Fragments : CleanerCall(h)
    /\ previous' = None

\* The returned str parsed again as the html of a later call: of several
\* attributes of one name on an element the parser keeps the first.
FirstOfName(attrs) ==
    SelectSeq([i \in 1..Len(attrs) |->
                  [at |-> attrs[i], first |-> IndexOfName(attrs, attrs[i].name) = i]],
              LAMBDA x : x.first)

Reparse(dom) ==
    [i \in 1..Len(dom) |->
        [tag |-> dom[i].tag,
         attrs |-> [k \in 1..Len(FirstOfName(dom[i].attrs)) |->
                       FirstOfName(dom[i].attrs)[k].at]]]

\* out2 = c.clean(out): the caller cleans the previous output again.
PyCleanAgain ==
    /\ cleaner # None
    /\ op = "Cleaner.clean"
    /\ previous = None
    /\ result.kind = "Ok"
    /\ CleanerCall(Reparse(Unwrap(result.out)))
    /\ previous' = result.out

\* out = nh3.clean(h, **config)
ModuleClean ==
    /\ op = "none"
    /\ \E h \in Fragments :
          \E r \in {CleanFn(h, config)} :
              /\ result' = r.result
              /\ sanitized' = r.sanitized
              /\ hookCalls' = r.calls
              /\ unraisable' = r.unraisable
              /\ html' = Some(h)
    /\ op' = "clean"
    /\ UNCHANGED <<config, cleaner, previous, moduleAttrs, gil, threads>>

Next ==
    \/ NewCleaner
    \/ PyClean
    \/ PyCleanAgain
    \/ ModuleClean

Spec == Init /\ [][Next]_vars

(***************************************************************************)
(* Properties                                                              *)
(***************************************************************************)
NotCallableSupplied ==
    config.attribute_filter # None /\ ~Unwrap(config.attribute_filter).callable

\* C1: with an attribute_filter that is not callable, Cleaner(...) and the
\* module-level clean(html, ...) both fail with a TypeError: no Cleaner is
\* built, the html never reaches builder.clean, no hook is invoked and no
\* output is returned.
NonCallableFilterFailsFast ==
    (NotCallableSupplied /\ op # "none") =>
        /\ op \in {"Cleaner", "clean"}
        /\ cleaner = None
        /\ result.kind = "TypeError"
        /\ result.out = None
        /\ sanitized = None
        /\ hookCalls = <<>>

\* C1 witness: the module-level clean was called with some html and a
\* non-callable attribute_filter, and raised the TypeError.
NonCallableFilterWitness ==
    /\ NotCallableSupplied
    /\ op = "clean"
    /\ html # None /\ Unwrap(html) # <<>>
    /\ result.kind = "TypeError"

(***************************************************************************)
(* Vocabulary for the properties of a finished clean call                  *)
(***************************************************************************)
RanClean == op \in {"Cleaner.clean", "clean"} /\ sanitized # None

Hook == Unwrap(config.attribute_filter)

OutDom == Unwrap(result.out)

\* The attribute of that name on the output element with that tag, as an
\* Option of its value (elements of the model carry a name at most once).
OutValue(tag, name) ==
    {OutDom[i].attrs[k].value :
        <<i, k>> \in {<<i, k>> \in (1..Len(OutDom)) \X (1..(MaxAttrs + 2)) :
                          /\ OutDom[i].tag = tag
                          /\ k <= Len(OutDom[i].attrs)
                          /\ OutDom[i].attrs[k].name = name}}

NumReports(args) == Cardinality({r \in 1..Len(unraisable) : unraisable[r].obj = args})

NumCalls(args) == Cardinality({k \in 1..Len(hookCalls) : hookCalls[k] = args})

HookFails(args) == Call(Hook, args).kind \in {"raise", "nonstr"}

\* The attributes the hook is to see on a kept input element: the input
\* attributes that pass the allowlist, then the forced ones.
HookSubjects(el) ==
    \* (CHOOSE over a one-element set: the builder is computed once)
    CHOOSE subjects \in {ForceAttrs(b, el.tag, RetainAttrs(b, el.tag, el.attrs)) :
                            b \in {BuildAmmoniaFromConfig(config)}} : TRUE

\* C2: a hook invocation that raises or returns a non-str, non-None value
\* is reported exactly once through the unraisable hook, with the
\* invocation's (tag, attribute, value); the attribute keeps the value it
\* had before the hook; every later attribute of the element is still
\* visited; and the clean call returns its output.
HookFailureIsContained ==
    RanClean =>
        \A k \in 1..Len(hookCalls) :
            HookFails(hookCalls[k]) =>
                /\ NumReports(hookCalls[k]) = NumCalls(hookCalls[k])
                /\ \A r \in 1..Len(unraisable) :
                      unraisable[r].obj = hookCalls[k] =>
                          unraisable[r].err =
                              IF Call(Hook, hookCalls[k]).kind = "raise"
                              THEN Call(Hook, hookCalls[k]).s ELSE "TypeError"
                /\ result.kind = "Ok"
                /\ OutValue(hookCalls[k][1], hookCalls[k][2]) = Some(hookCalls[k][3])
                /\ \A e \in 1..Len(Unwrap(sanitized)) :
                      Unwrap(sanitized)[e].tag = hookCalls[k][1] =>
                          Len(hookCalls) = Len(HookSubjects(Unwrap(sanitized)[e]))

\* C2 witness: a clean call in which the first of three invocations failed
\* and a later one returned normally.
HookFailureWitness ==
    /\ RanClean
    /\ result.kind = "Ok"
    /\ Len(hookCalls) = 3
    /\ HookFails(hookCalls[1])
    /\ ~HookFails(hookCalls[2])
    /\ Len(unraisable) = 1

\* The hook is invoked once per attribute it is to see, in order, with the
\* three strings (tag name, attribute name, current value).
CalledWithTagNameValue ==
    \A e \in 1..Len(Unwrap(sanitized)) :
        LET el == Unwrap(sanitized)[e]
        IN  (el.tag \in BuildAmmoniaFromConfig(config).tags /\ result.kind = "Ok") =>
                \E subjects \in {HookSubjects(el)} :
                    hookCalls = [k \in 1..Len(subjects) |->
                                    <<el.tag, subjects[k].name, subjects[k].value>>]

\* C3 as stated: the hook gets the three strings; None removes the
\* attribute; any returned str becomes the value; every other outcome leaves
\* the attribute as it was.
AnyReturnedStrBecomesValue ==
    (RanClean /\ config.attribute_filter # None) =>
        /\ CalledWithTagNameValue
        /\ \A k \in 1..Len(hookCalls) :
              LET args == hookCalls[k]
                  res  == Call(Hook, args)
              IN  OutValue(args[1], args[2]) =
                      CASE res.kind = "none" -> None
                        [] res.kind \in {"str", "surrogate"} -> Some(res.s)
                        [] OTHER -> Some(args[3])

\* C3 amended: as C3, but a returned str becomes the value only if it
\* converts to a Rust String; a str that does not (a lone surrogate) is
\* handled as a failed invocation: reported, attribute left as it was.
ConvertibleStrBecomesValue ==
    (RanClean /\ config.attribute_filter # None) =>
        /\ CalledWithTagNameValue
        /\ \A k \in 1..Len(hookCalls) :
              LET args == hookCalls[k]
                  res  == Call(Hook, args)
              IN  /\ OutValue(args[1], args[2]) =
                        CASE res.kind = "none" -> None
                          [] res.kind = "str" -> Some(res.s)
                          [] OTHER -> Some(args[3])
                  /\ res.kind = "surrogate" => NumReports(args) = 1

\* C3 witness: a call in which one invocation of the hook returned a new str
\* that is now the attribute's value, and one returned the value it was given.
HookRewriteWitness ==
    /\ RanClean
    /\ result.kind = "Ok"
    /\ \E k \in 1..Len(hookCalls) :
          /\ Call(Hook, hookCalls[k]).kind = "str"
          /\ Call(Hook, hookCalls[k]).s # hookCalls[k][3]
          /\ OutValue(hookCalls[k][1], hookCalls[k][2]) = Some(Call(Hook, hookCalls[k]).s)
    /\ \E k \in 1..Len(hookCalls) : Call(Hook, hookCalls[k]).s = hookCalls[k][3]

\* The caller's options allow rel through the attributes map (under "*" or
\* under a tag) while link_rel is set.
RelConflictInConfig ==
    /\ config.link_rel # None
    /\ config.attributes # None
    /\ \E t \in DOMAIN Unwrap(config.attributes) : "rel" \in Unwrap(config.attributes)[t]

\* C4: a conflicting rel configuration is refused when the sanitizer is
\* constructed: the call raises a configuration error, no Cleaner exists
\* afterwards and no html has been handed to the sanitizer.
ConflictingRelRejectedAtConstruction ==
    (RelConflictInConfig /\ op # "none") =>
        /\ cleaner = None
        /\ result.kind = "TypeError"
        /\ sanitized = None

\* C8: a clean call ends in one of two ways: construction failed and there
\* is no output, or the call returned a complete str; with a constructed
\* Cleaner, clean always returns.
CleanHasTwoOutcomes ==
    /\ op = "clean" =>
          \/ result.kind = "TypeError" /\ result.out = None /\ sanitized = None
          \/ result.kind = "Ok" /\ result.out # None
    /\ op = "Cleaner.clean" => (result.kind = "Ok" /\ result.out # None)

\* The policy forces attribute `name` on elements with tag `tag`.
Forced(tag, name) ==
    \/ name = "rel" /\ tag = "a" /\ config.link_rel # None
    \/ /\ config.set_tag_attribute_values # None
       /\ tag \in DOMAIN Unwrap(config.set_tag_attribute_values)
       /\ name \in DOMAIN Unwrap(config.set_tag_attribute_values)[tag]

\* The caller's attributes map admits `name` on `tag`: by the tag's set, by
\* the "*" set, or by a configured generic prefix.
AllowedByMap(tag, name) ==
    LET m == Unwrap(config.attributes)
    IN  \/ tag \in DOMAIN m /\ name \in m[tag]
        \/ "*" \in DOMAIN m /\ name \in m["*"]
        \/ /\ config.generic_attribute_prefixes # None
           /\ \E p \in Unwrap(config.generic_attribute_prefixes) : StartsWith(name, p)

\* The attributes of the output that stem from the input element e: present
\* in the input under that name and not forced by the policy.
InputAttrsInOutput(e) ==
    {n \in {Unwrap(sanitized)[e].attrs[k].name : k \in 1..Len(Unwrap(sanitized)[e].attrs)} :
        /\ ~Forced(Unwrap(sanitized)[e].tag, n)
        /\ OutValue(Unwrap(sanitized)[e].tag, n) # None}

ForcedValue(tag, name) ==
    IF name = "rel" /\ tag = "a" /\ config.link_rel # None
    THEN Unwrap(config.link_rel)
    ELSE Unwrap(config.set_tag_attribute_values)[tag][name]

ForcedNames(tag) == {n \in AttrNames : Forced(tag, n)}

\* What becomes of an attribute with value v that is shown to the caller's
\* hook, if there is one: removed, rewritten, or left as it is.
AfterHook(tag, name, v) ==
    IF config.attribute_filter = None THEN Some(v)
    ELSE CASE Call(Hook, <<tag, name, v>>).kind = "none" -> None
           [] Call(Hook, <<tag, name, v>>).kind = "str" ->
                  Some(Call(Hook, <<tag, name, v>>).s)
           [] OTHER -> Some(v)

\* The value of attribute `name` on the input element e, as an Option.
InValue(e, name) ==
    {Unwrap(sanitized)[e].attrs[k].value :
        k \in {k \in 1..Len(Unwrap(sanitized)[e].attrs) :
                  Unwrap(sanitized)[e].attrs[k].name = name}}

Survives(e) == Unwrap(sanitized)[e].tag \in BuildAmmoniaFromConfig(config).tags

\* C6 as stated: on every surviving element each forced attribute is in the
\* output with exactly the configured value, whatever the input value and
\* whatever the hook returns; without link_rel no rel is inserted, and an
\* allowed input rel that the hook does not touch is kept unchanged.
ForcedAttributesIgnoreHook ==
    (RanClean /\ result.kind = "Ok") =>
        \A e \in 1..Len(Unwrap(sanitized)) :
            LET tag == Unwrap(sanitized)[e].tag
            IN  Survives(e) =>
                  /\ \A n \in ForcedNames(tag) :
                        OutValue(tag, n) = Some(ForcedValue(tag, n))
                  /\ (config.link_rel = None /\ InValue(e, "rel") = None) =>
                        OutValue(tag, "rel") = None
                  /\ (/\ config.link_rel = None
                      /\ Whitelisted(BuildAmmoniaFromConfig(config), tag, "rel")
                      /\ InValue(e, "rel") # None
                      /\ AfterHook(tag, "rel", Unwrap(InValue(e, "rel"))) = InValue(e, "rel")) =>
                        OutValue(tag, "rel") = InValue(e, "rel")

\* C6 amended: a forced attribute is exempt from input filtering but not
\* from the hook: the hook is invoked with the configured value, and the
\* output has the attribute as the hook leaves it (the configured value if
\* there is no hook, or the hook returns it unchanged or fails; removed on
\* None; rewritten on another str).  Without link_rel no rel is inserted, and
\* an allowed input rel is likewise kept as the hook leaves it.
ForcedAttributesPassThroughHook ==
    (RanClean /\ result.kind = "Ok") =>
        \A e \in 1..Len(Unwrap(sanitized)) :
            LET tag == Unwrap(sanitized)[e].tag
            IN  Survives(e) =>
                  /\ \A n \in ForcedNames(tag) :
                        /\ OutValue(tag, n) = AfterHook(tag, n, ForcedValue(tag, n))
                        /\ config.attribute_filter # None =>
                              NumCalls(<<tag, n, ForcedValue(tag, n)>>) = 1
                  /\ (config.link_rel = None /\ InValue(e, "rel") = None) =>
                        OutValue(tag, "rel") = None
                  /\ (/\ config.link_rel = None
                      /\ Whitelisted(BuildAmmoniaFromConfig(config), tag, "rel")
                      /\ InValue(e, "rel") # None) =>
                        OutValue(tag, "rel") = AfterHook(tag, "rel", Unwrap(InValue(e, "rel")))

\* C6 witness: an input <b title=...> whose title differs from the forced
\* one came out with the forced value although a hook was invoked on it.
ForcedAttributeWitness ==
    /\ RanClean /\ result.kind = "Ok"
    /\ Len(Unwrap(sanitized)) = 1
    /\ Forced(Unwrap(sanitized)[1].tag, "title")
    /\ InValue(1, "title") \notin {None, Some(ForcedValue(Unwrap(sanitized)[1].tag, "title"))}
    /\ OutValue(Unwrap(sanitized)[1].tag, "title") =
           Some(ForcedValue(Unwrap(sanitized)[1].tag, "title"))
    /\ NumCalls(<<Unwrap(sanitized)[1].tag, "title",
                  ForcedValue(Unwrap(sanitized)[1].tag, "title")>>) = 1

\* The strings an attribute value can be in the model.
AllValues == AttrValues \cup {"z", "set", LINK_REL_DEFAULT, "<lone surrogate>"}

\* Shown its own result again, the hook returns it unchanged.
HookIdempotent ==
    config.attribute_filter # None =>
        \A t \in TagNames, n \in AttrNames, v \in AllValues :
            Call(Hook, <<t, n, v>>).kind = "str" =>
                Call(Hook, <<t, n, Call(Hook, <<t, n, v>>).s>>) =
                    [kind |-> "str", s |-> Call(Hook, <<t, n, v>>).s]

\* An element's attributes without their order.
AttrSet(el) == {el.attrs[k] : k \in 1..Len(el.attrs)}

SameUpToAttrOrder(d1, d2) ==
    /\ Len(d1) = Len(d2)
    /\ \A i \in 1..Len(d1) :
          /\ d1[i].tag = d2[i].tag
          /\ Len(d1[i].attrs) = Len(d2[i].attrs)
          /\ AttrSet(d1[i]) = AttrSet(d2[i])

HookRemovesNothing ==
    config.attribute_filter # None =>
        \A t \in TagNames, n \in AttrNames, v \in AllValues :
            Call(Hook, <<t, n, v>>).kind # "none"

TagsDiscard ==
    /\ \E t \in TagNames :
          moduleAttrs' = [moduleAttrs EXCEPT !.ALLOWED_TAGS = @ \ {t}]
    /\ UNCHANGED <<config, cleaner, callVars, gil, threads>>

\* nh3.ALLOWED_ATTRIBUTES["a"].add(n)
AttributesAdd ==
    /\ \E n \in {"rel", "data-x"} :
          moduleAttrs' = [moduleAttrs EXCEPT !.ALLOWED_ATTRIBUTES["a"] = @ \cup {n}]
    /\ UNCHANGED <<config, cleaner, callVars, gil, threads>>

\* nh3.ALLOWED_URL_SCHEMES.add("javascript")
UrlSchemesAdd ==
    /\ moduleAttrs' = [moduleAttrs EXCEPT !.ALLOWED_URL_SCHEMES = @ \cup {"javascript"}]
    /\ UNCHANGED <<config, cleaner, callVars, gil, threads>>

\* The options of a caller that leaves tags or attributes out or sets them,
\* without hook, prefixes or forced values.
ModuleConfigs ==
    {c \in Configs :
        /\ c.attribute_filter = None
        /\ c.generic_attribute_prefixes = None
        /\ c.set_tag_attribute_values = None
        /\ c.attributes \in {None, Some("a" :> {"href"})}}

InitModule == Init /\ config \in ModuleConfigs

NextModule ==
    \/ Next
    \/ TagsDiscard
    \/ AttributesAdd
    \/ UrlSchemesAdd

SpecModule == InitModule /\ [][NextModule]_vars

\* C10 as stated: the exposed default allowlists never change after module
\* initialisation.
ExposedDefaultsNeverChange == moduleAttrs = ModuleInit

\* C10 amended: whatever callers did to the exposed objects, a clean call
\* that omits tags keeps exactly the elements whose tag is a default tag of
\* a fresh Builder, and one that omits attributes keeps exactly the input
\* attributes that are default attributes of the tag or default generic
\* attributes of a fresh Builder (for callers without hook, prefixes and
\* forced values).
AppliedDefaultsNeverChange ==
    (RanClean /\ result.kind = "Ok") =>
        \A e \in 1..Len(Unwrap(sanitized)) :
            LET el == Unwrap(sanitized)[e]
                names == {el.attrs[k].name : k \in 1..Len(el.attrs)}
                default(n) ==
                    \/ n \in DefaultBuilder.generic_attributes
                    \/ /\ el.tag \in DOMAIN DefaultBuilder.tag_attributes
                       /\ n \in DefaultBuilder.tag_attributes[el.tag]
            IN  /\ config.tags = None =>
                      ((\E i \in 1..Len(OutDom) : OutDom[i].tag = el.tag)
                          <=> el.tag \in DefaultBuilder.tags)
                /\ (config.attributes = None /\ Survives(e)) =>
                      \A n \in names \ ForcedNames(el.tag) :
                          OutValue(el.tag, n) # None <=> default(n)

\* C10 witness: after callers removed "a" from ALLOWED_TAGS and added
\* data-x to ALLOWED_ATTRIBUTES["a"], a clean call that omits tags and
\* attributes kept an <a href> and dropped its data-x.
ExposedDefaultsWitness ==
    /\ RanClean /\ result.kind = "Ok"
    /\ config.tags = None /\ config.attributes = None
    /\ "a" \notin moduleAttrs.ALLOWED_TAGS
    /\ "data-x" \in moduleAttrs.ALLOWED_ATTRIBUTES["a"]
    /\ Len(Unwrap(sanitized)) = 1
    /\ Unwrap(sanitized)[1].tag = "a"
    /\ InValue(1, "data-x") # None
    /\ InValue(1, "href") # None
    /\ OutValue("a", "href") = InValue(1, "href")
    /\ OutValue("a", "data-x") = None

(***************************************************************************)
(* Several threads calling Cleaner.clean on one Cleaner                    *)
(*                                                                         *)
(* py_clean runs self.clean(html) inside py.allow_threads, so the walk     *)
(* goes on without the interpreter lock; the attribute_filter closure      *)
(* takes the lock with Python::with_gil around each call of the hook.      *)
(***************************************************************************)
\* The fragments the threads clean: one <a> with href and title, in either
\* order.
ThreadFragments ==
    {f \in Fragments :
        /\ Len(f) = 1
        /\ f[1].tag = "a"
        /\ Len(f[1].attrs) = 2
        /\ \A k \in 1..Len(f[1].attrs) :
              f[1].attrs[k].name \in {"href", "title"} /\ f[1].attrs[k].value = "x"}

ThreadHooks ==
    {[callable |-> TRUE, on |-> "href", beh |-> "none"],
     [callable |-> TRUE, on |-> "*", beh |-> "rot"],
     [callable |-> TRUE, on |-> "*", beh |-> "raise"]}

\* The options of the shared Cleaner.
ThreadConfigs ==
    {c \in Configs :
        /\ c.tags = None
        /\ c.attributes \in {None, Some("a" :> {"href", "rel"})}
        /\ c.generic_attribute_prefixes = None
        /\ c.set_tag_attribute_values = None
        /\ c.link_rel # None
        /\ c.attribute_filter \in {None} \cup {Some(f) : f \in ThreadHooks}}

\* The state after c = nh3.Cleaner(**config), before any thread calls clean.
InitThreads ==
    /\ config \in ThreadConfigs
    /\ cleaner = PyNew(config).ok
    /\ op = "Cleaner"
    /\ html = None
    /\ result = [kind |-> "Cleaner", out |-> None]
    /\ sanitized = None
    /\ hookCalls = <<>>
    /\ unraisable = <<>>
    /\ previous = None
    /\ moduleAttrs = ModuleInit
    /\ gil \in {NoThread, GilDisabled}
    /\ threads = [t \in Threads |-> IdleThread]

\* The builder of the shared Cleaner (self.inner.with_builder).
Builder == Unwrap(cleaner).builder

\* The builder the clean call of thread t runs on: that of the Cleaner it
\* was called on, or that of the Cleaner the module-level clean made.
BuilderOf(t) == Unwrap(threads[t].builder)

\* Mutant of StartWalk: the output is appended to a buffer that outlives the
\* call (the one thread "t1" wrote last) instead of a new one.
StartWalkKeepingBuffer(h) ==
    [pc |-> "walk", html |-> Some(h), node |-> 1, i |-> 0, attrs |-> <<>>,
     drops |-> <<>>, dom |-> threads["t1"].dom, reports |-> <<>>, calls |-> 0,
     builder |-> None, result |-> [kind |-> "none", out |-> None]]

\* The locals of a walk that has just begun on the fragment h: builder.clean
\* parses h into a document of its own and keeps nothing of earlier calls.
StartWalk(h) ==
    [pc |-> "walk", html |-> Some(h), node |-> 1, i |-> 0, attrs |-> <<>>,
     drops |-> <<>>, dom |-> <<>>, reports |-> <<>>, calls |-> 0,
     builder |-> None, result |-> [kind |-> "none", out |-> None]]

\* Thread t attaches to the interpreter (Python::with_gil, the end of
\* py.allow_threads, the interpreter scheduling it): it waits for the lock
\* and takes it; where the lock is disabled there is nothing to wait for.
AcquireGil(t) ==
    IF gil = GilDisabled THEN gil' = gil ELSE gil = NoThread /\ gil' = t

\* Thread t detaches from the interpreter (py.allow_threads, the end of
\* Python::with_gil, the interpreter switching away): it gives the lock up.
ReleaseGil(t) ==
    IF gil = GilDisabled THEN gil' = gil ELSE gil = t /\ gil' = NoThread

\* The interpreter schedules thread t: it takes the lock and runs Python.
TakeGil(t) ==
    /\ threads[t].pc \in {"idle", "returned"}
    /\ AcquireGil(t)
    /\ threads' = [threads EXCEPT ![t].pc = "python"]
    /\ UNCHANGED <<config, cleaner, callVars, moduleAttrs>>

\* Mutant of CallClean: py_clean calls self.clean(html) without
\* py.allow_threads, so the walk starts with the lock still held.
CallCleanHoldingGil(t) ==
    /\ threads[t].pc = "python"
    /\ cleaner # None
    /\ threads[t].calls < MaxCalls
    /\ \E h \in ThreadFragments :
          threads' = [threads EXCEPT
                         ![t] = [StartWalk(h) EXCEPT !.calls = threads[t].calls + 1,
                                                     !.builder = Some(Builder)]]
    /\ gil' = gil
    /\ UNCHANGED <<config, cleaner, callVars, moduleAttrs>>

\* Thread t, running Python, calls c.clean(h): py_clean enters
\* py.allow_threads, which gives up the lock, and the walk starts.
CallClean(t) ==
    /\ threads[t].pc = "python"
    /\ cleaner # None
    /\ threads[t].calls < MaxCalls
    /\ \E h \in ThreadFragments :
          threads' = [threads EXCEPT
                         ![t] = [StartWalk(h) EXCEPT !.calls = threads[t].calls + 1,
                                                     !.builder = Some(Builder)]]
    /\ ReleaseGil(t)
    /\ UNCHANGED <<config, cleaner, callVars, moduleAttrs>>

\* Thread t, running Python, calls nh3.clean(h, ...) with the options of
\* config: py_new builds a Cleaner of its own while the lock is held, then
\* py.allow_threads gives the lock up and the walk starts on that Cleaner.
CallModuleClean(t) ==
    /\ threads[t].pc = "python"
    /\ threads[t].calls < MaxCalls
    /\ PyNew(config).err = None
    /\ \E h \in ThreadFragments :
          threads' = [threads EXCEPT
                         ![t] = [StartWalk(h) EXCEPT
                                    !.calls = threads[t].calls + 1,
                                    !.builder = Some(Unwrap(PyNew(config).ok).builder)]]
    /\ ReleaseGil(t)
    /\ UNCHANGED <<config, cleaner, callVars, moduleAttrs>>

\* The walk of thread t reaches the next node: an element that is not allowed
\* is skipped, an allowed one gets its attributes filtered by name and the
\* forced attributes set.
EnterNode(t) ==
    LET th == threads[t]
        el == Unwrap(th.html)[th.node]
    IN  /\ th.pc = "walk"
        /\ ~RelConflict(BuilderOf(t))
        /\ th.i = 0
        /\ th.node <= Len(Unwrap(th.html))
        /\ threads' =
              IF el.tag \notin BuilderOf(t).tags
              THEN [threads EXCEPT ![t].node = @ + 1]
              ELSE [threads EXCEPT
                       ![t].i = 1,
                       ![t].drops = <<>>,
                       ![t].attrs = ForceAttrs(BuilderOf(t), el.tag,
                                               RetainAttrs(BuilderOf(t), el.tag, el.attrs))]
        /\ UNCHANGED <<config, cleaner, callVars, moduleAttrs, gil>>

\* The closure is called for attribute i and enters Python::with_gil: the
\* thread waits for the lock and takes it.
EnterWithGil(t) ==
    LET th == threads[t]
    IN  /\ th.pc = "walk"
        /\ th.i >= 1 /\ th.i <= Len(th.attrs)
        /\ BuilderOf(t).attribute_filter # None
        /\ AcquireGil(t)
        /\ threads' = [threads EXCEPT ![t].pc = "hook"]
        /\ UNCHANGED <<config, cleaner, callVars, moduleAttrs>>

\* Holding the lock, the closure calls the hook, reports a failure, leaves
\* with_gil (giving the lock up) and hands its result to the walk, which
\* applies it to attribute i and moves on.
CallHook(t) ==
    LET th == threads[t]
        el == Unwrap(th.html)[th.node]
        r  == AttributeFilter(Unwrap(BuilderOf(t).attribute_filter), el.tag,
                              th.attrs[th.i].name, th.attrs[th.i].value)
        a  == ApplyFilterResult([attrs |-> th.attrs, drops |-> th.drops], th.i, r.ret)
    IN  /\ th.pc = "hook"
        /\ threads' = [threads EXCEPT
                          ![t].pc = "walk",
                          ![t].attrs = a.attrs,
                          ![t].drops = a.drops,
                          ![t].reports = @ \o r.unraisable,
                          ![t].i = @ + 1]
        /\ ReleaseGil(t)
        /\ UNCHANGED <<config, cleaner, callVars, moduleAttrs>>

\* All attributes of the element have been through the filter (or there is
\* none): the marked ones are removed and the element joins the output.
LeaveNode(t) ==
    LET th == threads[t]
        el == Unwrap(th.html)[th.node]
    IN  /\ th.pc = "walk"
        /\ th.i >= 1
        /\ BuilderOf(t).attribute_filter = None \/ th.i > Len(th.attrs)
        /\ threads' = [threads EXCEPT
                          ![t].dom = Append(@, [tag |-> el.tag,
                                                attrs |-> SwapRemoveAll(th.attrs, th.drops)]),
                          ![t].attrs = <<>>,
                          ![t].drops = <<>>,
                          ![t].i = 0,
                          ![t].node = @ + 1]
        /\ UNCHANGED <<config, cleaner, callVars, moduleAttrs, gil>>

\* The walk is over (or an assertion on the builder failed): allow_threads
\* takes the lock again and py_clean returns the str, or the panic reaches
\* the caller as a PanicException.
ReturnClean(t) ==
    LET th == threads[t]
    IN  /\ th.pc = "walk"
        /\ \/ RelConflict(BuilderOf(t))
           \/ th.i = 0 /\ th.node > Len(Unwrap(th.html))
        /\ AcquireGil(t)
        /\ threads' = [threads EXCEPT
                          ![t].pc = "python",
                          ![t].result =
                              Returned([panic |-> RelConflict(BuilderOf(t)), dom |-> th.dom])]
        /\ UNCHANGED <<config, cleaner, callVars, moduleAttrs>>

\* The interpreter switches away from thread t: it gives the lock up.
DropGil(t) ==
    /\ threads[t].pc = "python"
    /\ ReleaseGil(t)
    /\ threads' = [threads EXCEPT ![t].pc = "returned"]
    /\ UNCHANGED <<config, cleaner, callVars, moduleAttrs>>

NextThreads ==
    \E t \in Threads :
        \/ TakeGil(t)
        \/ CallClean(t)
        \/ CallModuleClean(t)
        \/ EnterNode(t)
        \/ EnterWithGil(t)
        \/ CallHook(t)
        \/ LeaveNode(t)
        \/ ReturnClean(t)
        \/ DropGil(t)

SpecThreads == InitThreads /\ [][NextThreads]_vars

\* What a Cleaner constructed anew from the same options returns for h, and
\* what it reports on the way.
FreshRun(h) == CleanerClean(CleanerNew(config), h)

Finished(t) == threads[t].pc \in {"python", "returned"} /\ threads[t].calls > 0

\* C7: with one Cleaner called by several threads, again and again, in every
\* interleaving: the Cleaner keeps the configuration and the builder it was
\* constructed with, and every finished call has returned, and reported,
\* what a Cleaner constructed anew from the same options does for that
\* call's input.
ReuseIsSafe ==
    /\ cleaner = Some(CleanerNew(config))
    /\ \A t \in Threads :
          Finished(t) =>
              /\ threads[t].result = Returned(FreshRun(Unwrap(threads[t].html)))
              /\ threads[t].reports = FreshRun(Unwrap(threads[t].html)).unraisable

\* C7 witness: thread t1 has finished its second call on the Cleaner, whose
\* hook changed its input, while thread t2 is inside the hook in the middle
\* of a walk over another input.
ReuseWitness ==
    /\ Finished("t1")
    /\ threads["t1"].calls = 2
    /\ threads["t1"].result.kind = "Ok"
    /\ threads["t1"].result.out # threads["t1"].html
    /\ threads["t2"].pc = "hook"
    /\ threads["t2"].i = 2
    /\ threads["t2"].html # threads["t1"].html

(***************************************************************************)
(* The interpreter lock                                                    *)
(***************************************************************************)
\* The scheduling the liveness of clean rests on: a walk that can go on
\* does, a hook that was called returns, a thread running Python gives the
\* lock up in time (the interpreter's switch interval), and a thread that
\* waits for the lock gets it if the lock is free again and again.
FairThreads ==
    \A t \in Threads :
        /\ WF_vars(EnterNode(t))
        /\ WF_vars(LeaveNode(t))
        /\ WF_vars(CallHook(t))
        /\ WF_vars(DropGil(t))
        /\ SF_vars(EnterWithGil(t))
        /\ SF_vars(ReturnClean(t))

SpecThreadsFair == SpecThreads /\ FairThreads

InClean(t) == threads[t].pc \in {"walk", "hook"}

\* Thread t is in the tree traversal proper, outside the hook.
Traversing(t) == threads[t].pc = "walk"

InHook(t) == threads[t].pc = "hook"

\* clean has returned to the Python code of thread t, which runs on.
BackInPython(t) == threads[t].pc = "python" /\ threads[t].calls > 0

\* A step in which thread t writes a diagnostic report.
Reports(t) == Len(threads'[t].reports) > Len(threads[t].reports)

\* The lock, as C11 states it: never held by a traversing thread, held by
\* the thread inside the hook and by the thread clean has returned to, and
\* never two threads inside the hook.
LockHeldAsStated ==
    /\ \A t \in Threads :
          /\ Traversing(t) => gil # t
          /\ (InHook(t) \/ BackInPython(t)) => gil = t
    /\ \A t, u \in Threads : (InHook(t) /\ InHook(u)) => t = u

\* C11 as stated: the lock is released for the whole traversal and held
\* again on return, hook invocations and reports happen only under the lock,
\* at most one thread is inside the hook, and every clean call returns.
LockDisciplineAsStated ==
    /\ []LockHeldAsStated
    /\ [][\A t \in Threads : Reports(t) => gil = t]_vars
    /\ \A t \in Threads : InClean(t) ~> BackInPython(t)

\* The lock where the interpreter has one; on a free-threaded interpreter
\* (the module declares gil_used = false) there is no lock to hold.
LockHeld ==
    /\ \A t \in Threads :
          /\ Traversing(t) => gil # t
          /\ (InHook(t) \/ BackInPython(t)) => gil \in {t, GilDisabled}
    /\ gil # GilDisabled =>
          \A t, u \in Threads : (InHook(t) /\ InHook(u)) => t = u

\* C11 amended: on an interpreter with the lock, the calling thread releases
\* it for the whole traversal and holds it again when clean returns, every
\* hook invocation and every diagnostic report happens while the invoking
\* thread holds it, and so at most one thread is inside the hook; on a
\* free-threaded interpreter the hook and the reports run in a thread
\* attached to the interpreter, but without mutual exclusion.  On both, every
\* clean call eventually returns, given fair scheduling and a hook that
\* returns.
LockDiscipline ==
    /\ []LockHeld
    /\ [][\A t \in Threads : Reports(t) => (InHook(t) /\ gil \in {t, GilDisabled})]_vars
    /\ \A t \in Threads : InClean(t) ~> BackInPython(t)

\* C11 witness: on an interpreter with the lock, thread t1 is inside the
\* hook holding the lock while thread t2, which has reported a failure of
\* the hook earlier in its call, waits for the lock to call the hook for its
\* second attribute.
LockContentionWitness ==
    /\ gil = "t1"
    /\ InHook("t1")
    /\ Traversing("t2")
    /\ threads["t2"].i = 2
    /\ Len(threads["t2"].attrs) >= 2
    /\ threads["t2"].reports # <<>>

====
